---- MODULE Spec2Model ----
(***************************************************************************)
(* A model of gromey/format-engine (generic revision): the field plan      *)
(* (common.go), the encode driver (encode.go), the decode driver           *)
(* (decode, unnamed/part_002) and the engine constructor                   *)
(* (unnamed/part_000).                                                     *)
(*                                                                         *)
(* Bytes are one-character strings; a byte sequence is a sequence of them. *)
(* Go values are records [t |-> type name, x |-> payload].                 *)
(***************************************************************************)
EXTENDS Integers, Sequences, FiniteSets, TLC

VARIABLES
    tdecl,      \* the declaration (field list) of the record type "T" under test
    eng,        \* the engine the call is made on (result of New)
    val,        \* the Go value handed to Marshal
    pc,         \* position of the sequential caller
    plan,       \* result of typeFields(T)
    mres,       \* result of Marshal: [out, err, panic]
    data,       \* the caller's byte slice as it was when handed to Unmarshal
    ures,       \* result of Unmarshal: [v, err, panic] and the byte arrays after it
    heap,       \* the encodeState and decodeState objects allocated so far
    encodeStatePool,    \* addresses of the objects in encodeStatePool
    decodeStatePool,    \* addresses of the objects in decodeStatePool
    fieldCache, \* the process-wide fieldCache: type -> structFields
    calls,      \* the calls made so far, each with what it returned
    encoderCache,       \* the process-wide encoderCache: type -> encoderFunc
    thr         \* the threads of the concurrent specification

callVars == <<tdecl, eng, val, pc, plan, mres, data, ures>>
processVars == <<heap, encodeStatePool, decodeStatePool, fieldCache, calls>>
threadVars == <<encoderCache, thr>>
vars == <<tdecl, eng, val, pc, plan, mres, data, ures, heap, encodeStatePool,
          decodeStatePool, fieldCache, calls, encoderCache, thr>>

(***************************************************************************)
(* Bounds of the model.                                                    *)
(***************************************************************************)
\* number of fields of the record type T in the introspection specification
MaxPlanFields == 3
\* number of fields of the record type T in the call specifications
MaxFields == 2
\* nesting depth after which the Go runtime's stack is taken to be exhausted
MaxDepth == 4
\* number of Marshal and Unmarshal calls of the process specification
MaxCalls == 3
\* number of scratch objects the process specification allocates
MaxStates == 2

(***************************************************************************)
(* Small helpers.                                                          *)
(***************************************************************************)
Range(s) == {s[i] : i \in 1..Len(s)}

IsInjective(s) == \A i, j \in 1..Len(s) : i # j => s[i] # s[j]

SeqsUpTo(S, n) == UNION {[1..k -> S] : k \in 0..n}

HasPrefix(s, p) == Len(p) <= Len(s) /\ SubSeq(s, 1, Len(p)) = p

DropN(s, n) == SubSeq(s, n + 1, Len(s))

HasSuffix(s, p) == Len(p) <= Len(s) /\ SubSeq(s, Len(s) - Len(p) + 1, Len(s)) = p

RemoveAt(s, i) == SubSeq(s, 1, i - 1) \o SubSeq(s, i + 1, Len(s))

\* F applied to the value of x, x being evaluated exactly once
Let(x, F(_)) == CHOOSE y \in {F(r) : r \in {x}} : TRUE

RECURSIVE Flatten(_)
Flatten(ss) == IF ss = <<>> THEN <<>> ELSE Head(ss) \o Flatten(Tail(ss))

(***************************************************************************)
(* Errors.  Every error is a record of the same shape; k tells its form.   *)
(***************************************************************************)
MkErr(k, tagName, state, structName, fieldName, typ, tag, cause) ==
    [k |-> k, tagName |-> tagName, state |-> state, structName |-> structName,
     fieldName |-> fieldName, typ |-> typ, tag |-> tag, cause |-> cause]

NilErr == MkErr("nil", "", "", "", "", "", "", "")

\* errors.New sentinels and errors returned by the tag driver or strconv
Sentinel(c) == MkErr("sentinel", "", "", "", "", "", "", c)

errExist == Sentinel("errExist")
ErrNotSupportType == Sentinel("ErrNotSupportType")
ErrNilInterface == Sentinel("ErrNilInterface")
ErrPointerToUnexported == Sentinel("ErrPointerToUnexported")
ErrInvalidFormat == Sentinel("ErrInvalidFormat")

\* errors.Is(err, target) for a sentinel target: err is target or wraps it
ErrorsIs(err, c) == err.k # "nil" /\ err.cause = c

\* unwrapErr: one level of errors.Unwrap when there is one
unwrapErr(err) == IF err.k = "sentinel" THEN err ELSE Sentinel(err.cause)

(***************************************************************************)
(* The type universe.                                                      *)
(***************************************************************************)
NoTag == "<none>"
TagKeys == {"fmt", "alt"}
Annot(a) == [k \in TagKeys |-> IF k = "fmt" THEN a ELSE NoTag]
Annot2(a, b) == [k \in TagKeys |-> IF k = "fmt" THEN a ELSE b]

\* reflect.StructField as far as the engine reads it
StructField(name, typ, exported, anonymous, tag) ==
    [name |-> name, typ |-> typ, exported |-> exported,
     anonymous |-> anonymous, tag |-> tag]

PtrTypes == {"*int", "*Inner", "*Node", "*Loop", "*inner", "*T"}

Kind(t) ==
    CASE t \in {"int", "MyInt"} -> "int"
      [] t = "uint8" -> "uint"
      [] t = "bool" -> "bool"
      [] t = "string" -> "string"
      [] t \in {"[]byte", "[]int"} -> "slice"
      [] t = "any" -> "interface"
      [] t = "map" -> "map"
      [] t \in PtrTypes -> "ptr"
      [] OTHER -> "struct"

Elem(t) ==
    CASE t = "*int" -> "int"
      [] t = "*Inner" -> "Inner"
      [] t = "*inner" -> "inner"
      [] t = "*Node" -> "Node"
      [] t = "*Loop" -> "Loop"
      [] t = "*T" -> "T"
      [] t = "[]byte" -> "uint8"
      [] t = "[]int" -> "int"

\* the declared fields of the record types other than T
FixedDecl(t) ==
    CASE t = "Inner" -> << StructField("X", "int", TRUE, FALSE, Annot("omitempty")),
                           StructField("Y", "string", TRUE, FALSE, Annot("omitempty")) >>
      [] t = "inner" -> << StructField("P", "int", TRUE, FALSE, Annot(NoTag)),
                           StructField("q", "int", FALSE, FALSE, Annot(NoTag)) >>
      [] t = "Empty" -> << StructField("u", "int", FALSE, FALSE, Annot(NoTag)) >>
      [] t = "Bad" -> << StructField("K", "int", TRUE, FALSE, Annot("x")),
                         StructField("L", "int", TRUE, FALSE, Annot("bad")),
                         StructField("M", "int", TRUE, FALSE, Annot(NoTag)) >>
      [] t = "Node" -> << StructField("V", "int", TRUE, FALSE, Annot(NoTag)),
                          StructField("Next", "*Node", TRUE, FALSE, Annot(NoTag)) >>
      [] t = "Loop" -> << StructField("Loop", "*Loop", TRUE, TRUE, Annot(NoTag)) >>

\* the name of the record type that is T less its i-th field
Without ==
    << "T less field 1", "T less field 2", "T less field 3", "T less field 4" >>

StructDecl(t) ==
    IF t = "T" THEN tdecl
    ELSE IF \E i \in DOMAIN Without : Without[i] = t
    THEN RemoveAt(tdecl, CHOOSE i \in DOMAIN Without : Without[i] = t)
    ELSE FixedDecl(t)

NumField(t) == Len(StructDecl(t))

(***************************************************************************)
(* The tag driver (Tag[T]) and the engine (New).                           *)
(***************************************************************************)
\* Default[T].Skip
DefaultSkip(tagValue) == FALSE

\* Default[T].Parse: (omit_empty, err)
DefaultParse(tagValue) == [omit |-> FALSE, err |-> NilErr]

\* a driver that overrides Skip: "-" marks a skipped field
CustomSkip(tagValue) == tagValue = "-"

\* a driver that overrides Parse: "omitempty" sets the flag, "bad" fails
CustomParse(tagValue) ==
    [omit |-> tagValue = "omitempty",
     err |-> IF tagValue = "bad" THEN Sentinel("ErrParse") ELSE NilErr]

Skip(tag, tagValue) ==
    IF tag.mode = "default" THEN DefaultSkip(tagValue) ELSE CustomSkip(tagValue)

Parse(tag, tagValue) ==
    IF tag.mode = "default" THEN DefaultParse(tagValue) ELSE CustomParse(tagValue)

\* a tag driver: its annotation key, whether it embeds only Default, the field
\* name its Encode and Decode fail on ("" for none), and whether its Decode
\* consumes the bytes it has read by rewriting the working buffer in place
Driver(name, mode, failOn, consume) ==
    [name |-> name, mode |-> mode, failOn |-> failOn, consume |-> consume]

\* Config; Marshaller and Unmarshaler are taken to be interface types that no
\* type of this universe implements
Config(opener, closer, unwrap, separator, removeSep) ==
    [StructOpener |-> opener, StructCloser |-> closer,
     UnwrapWhenDecoding |-> unwrap, ValueSeparator |-> separator,
     RemoveSeparatorWhenDecoding |-> removeSep,
     Marshaller |-> "Marshaller", Unmarshaler |-> "Unmarshaler"]

\* a reflect.Type that is nil: what Config.Marshaller and Config.Unmarshaler
\* are when the caller leaves them out
NilType == "nil"
Unset(cfg) == [cfg EXCEPT !.Marshaller = NilType, !.Unmarshaler = NilType]

New(tag, cfg) ==
    [tag |-> tag,
     wrap |-> (Len(cfg.StructOpener) # 0 \/ Len(cfg.StructCloser) # 0)
              /\ cfg.UnwrapWhenDecoding,
     separate |-> Len(cfg.ValueSeparator) # 0,
     removeSeparator |-> Len(cfg.ValueSeparator) # 0
                         /\ cfg.RemoveSeparatorWhenDecoding,
     structOpener |-> cfg.StructOpener,
     structCloser |-> cfg.StructCloser,
     valueSeparator |-> cfg.ValueSeparator,
     marshaller |-> cfg.Marshaller,
     unmarshaler |-> cfg.Unmarshaler]

(***************************************************************************)
(* Coder compiler and type introspector (common.go).                       *)
(***************************************************************************)
\* a coder function value: its name and, for the invalid-tag closures, what
\* the closure captured
Coder(fn) == [fn |-> fn, tag |-> "", err |-> NilErr]
NilCoder == Coder("nil")
invalidTagEncoder(tag, err) == [fn |-> "invalidTagEncoder", tag |-> tag, err |-> err]
invalidTagDecoder(tag, err) == [fn |-> "invalidTagDecoder", tag |-> tag, err |-> err]

sliceCoders(t) ==
    IF Kind(Elem(t)) = "uint"
    THEN [ef |-> Coder("bytesEncoder"), df |-> Coder("bytesDecoder")]
    ELSE [ef |-> Coder("unsupportedTypeEncoder"), df |-> Coder("unsupportedTypeDecoder")]

\* typeCoders of engine e panics for t: p.Implements(e.marshaller) with a nil
\* e.marshaller, which is asked of every type that is not a pointer
ImplementsPanics(e, t) == Kind(t) # "ptr" /\ e.marshaller = NilType

\* typeCoders; no type of this universe implements the marshaller or the
\* unmarshaler capability, so both slots take the kind's default
typeCoders(t) ==
    CASE Kind(t) = "bool" -> [ef |-> Coder("boolEncoder"), df |-> Coder("boolDecoder")]
      [] Kind(t) = "int" -> [ef |-> Coder("intEncoder"), df |-> Coder("intDecoder")]
      [] Kind(t) = "uint" -> [ef |-> Coder("uintEncoder"), df |-> Coder("uintDecoder")]
      [] Kind(t) = "interface" ->
            [ef |-> Coder("interfaceEncoder"), df |-> Coder("interfaceDecoder")]
      [] Kind(t) = "ptr" -> [ef |-> Coder("pointerEncoder"), df |-> Coder("pointerDecoder")]
      [] Kind(t) = "slice" -> sliceCoders(t)
      [] Kind(t) = "string" -> [ef |-> Coder("stringEncoder"), df |-> Coder("stringDecoder")]
      [] Kind(t) = "struct" -> [ef |-> Coder("structEncoder"), df |-> Coder("structDecoder")]
      [] OTHER ->
            [ef |-> Coder("unsupportedTypeEncoder"), df |-> Coder("unsupportedTypeDecoder")]

\* structFields: nil tells a nil slice from an empty one
Fields(fs) == [nil |-> FALSE, fields |-> fs, panic |-> "none"]
NilFields == [nil |-> TRUE, fields |-> <<>>, panic |-> "none"]
Panicked(why) == [nil |-> TRUE, fields |-> <<>>, panic |-> why]

\* field[T]; index counts from 1 here
Field(index, name, typ) ==
    [index |-> index, name |-> name, typ |-> typ, meta |-> "nil",
     omitEmpty |-> FALSE, encoder |-> NilCoder, decoder |-> NilCoder,
     embedded |-> [nil |-> TRUE, fields |-> <<>>]]

NoField == Field(0, "", "nil")

\* structField.Tag.Lookup(e.Name()); NoTag when the key is absent
LookupTag(e, structField) == structField.tag[e.tag.name]

\* a mutation of skipsField: the Skip predicate is never consulted
skipsFieldNever(e, structField) == FALSE

\* the annotation is present and the driver's Skip holds of it
skipsField(e, structField) ==
    LookupTag(e, structField) # NoTag /\ Skip(e.tag, LookupTag(e, structField))

RECURSIVE typeFields(_, _, _)
RECURSIVE typeFieldsLoop(_, _, _, _, _)

\* the loop of typeFields from field i on, fields being the plan so far
typeFieldsLoop(e, t, i, fields, fuel) ==
    IF i > NumField(t) THEN Fields(fields)
    ELSE
      LET structField == StructDecl(t)[i]
          fld == Field(i, structField.name, structField.typ)
      IN
      IF structField.anonymous THEN
          LET fieldType == IF Kind(structField.typ) = "ptr"
                           THEN Elem(structField.typ) ELSE structField.typ
          IN
          IF ~structField.exported /\ Kind(fieldType) # "struct"
          THEN typeFieldsLoop(e, t, i + 1, fields, fuel)
          ELSE
            Let(typeFields(e, fieldType, fuel - 1), LAMBDA sub :
              IF sub.panic # "none" THEN sub
              ELSE IF sub.nil THEN typeFieldsLoop(e, t, i + 1, fields, fuel)
              ELSE typeFieldsLoop(e, t, i + 1,
                      Append(fields, [fld EXCEPT !.embedded =
                                         [nil |-> FALSE, fields |-> sub.fields]]),
                      fuel))
      ELSE IF ~structField.exported
      THEN typeFieldsLoop(e, t, i + 1, fields, fuel)
      ELSE
        LET tag == LookupTag(e, structField)
            coders == typeCoders(structField.typ)
        IN
        IF skipsField(e, structField)
        THEN typeFieldsLoop(e, t, i + 1, fields, fuel)
        ELSE IF tag # NoTag /\ Parse(e.tag, tag).err # NilErr
        THEN Fields(Append(fields,
                [fld EXCEPT !.meta = tag, !.omitEmpty = Parse(e.tag, tag).omit,
                            !.encoder = invalidTagEncoder(tag, Parse(e.tag, tag).err),
                            !.decoder = invalidTagDecoder(tag, Parse(e.tag, tag).err)]))
        ELSE typeFieldsLoop(e, t, i + 1,
                Append(fields,
                   [fld EXCEPT !.meta = IF tag # NoTag THEN tag ELSE "nil",
                               !.omitEmpty = IF tag # NoTag
                                             THEN Parse(e.tag, tag).omit ELSE FALSE,
                               !.encoder = coders.ef, !.decoder = coders.df]),
                fuel)

\* typeFields(t): t.NumField() panics when t is no record type; fuel is the
\* stack that is left
typeFields(e, t, fuel) ==
    IF Kind(t) # "struct" THEN Panicked("reflect: NumField of non-struct type")
    ELSE IF fuel = 0 THEN Panicked("stack overflow")
    ELSE typeFieldsLoop(e, t, 1, <<>>, fuel)

(***************************************************************************)
(* Go values and strconv.                                                  *)
(***************************************************************************)
Val(t, x) == [t |-> t, x |-> x]

\* a pointer or a dynamic value holds <<>> (nil) or <<v>>
IsNil(v) == v.x = <<>>

\* a byte-sequence value: its own array b, or the first n bytes of the array
\* of the bytes.Buffer of the decode state that produced it
OwnBytes(b) == [ref |-> "own", b |-> b, n |-> Len(b)]
BufferBytes(n) == [ref |-> "Buffer", b |-> <<>>, n |-> n]

FieldType(t, i) == StructDecl(t)[i].typ

\* reflect.New(t).Elem(): the zero value of t
RECURSIVE Zero(_)
Zero(t) ==
    CASE Kind(t) \in {"int", "uint", "map"} -> Val(t, 0)
      [] Kind(t) = "bool" -> Val(t, FALSE)
      [] Kind(t) = "string" -> Val(t, <<>>)
      [] Kind(t) = "slice" -> Val(t, OwnBytes(<<>>))
      [] Kind(t) \in {"ptr", "interface"} -> Val(t, <<>>)
      [] OTHER -> Val(t, [i \in 1..NumField(t) |-> Zero(FieldType(t, i))])

\* a mutation of isEmptyValue: no value is empty
isEmptyValueNever(v) == FALSE

isEmptyValue(v) ==
    CASE Kind(v.t) = "slice" -> v.x.n = 0
      [] Kind(v.t) = "string" -> Len(v.x) = 0
      [] Kind(v.t) = "bool" -> ~v.x
      [] Kind(v.t) \in {"int", "uint"} -> v.x = 0
      [] Kind(v.t) \in {"interface", "ptr"} -> IsNil(v)
      [] OTHER -> FALSE

Digit == <<"0", "1", "2", "3", "4", "5", "6", "7", "8", "9">>

\* strconv.AppendUint(nil, n, 10)
RECURSIVE FormatUint(_)
FormatUint(n) ==
    IF n < 10 THEN <<Digit[n + 1]>>
    ELSE FormatUint(n \div 10) \o <<Digit[(n % 10) + 1]>>

\* strconv.AppendInt(nil, n, 10)
FormatInt(n) == IF n < 0 THEN <<"-">> \o FormatUint(-n) ELSE FormatUint(n)

\* strconv.AppendBool
FormatBool(b) == IF b THEN <<"t", "r", "u", "e">> ELSE <<"f", "a", "l", "s", "e">>

(***************************************************************************)
(* bytes.Buffer: arr is the backing array, of which the first len bytes    *)
(* are the contents.  No write of this model outgrows the array's capacity *)
(* (64 bytes from the first write on), so Reset and Write reuse the array. *)
(***************************************************************************)
NewBuffer == [arr |-> <<>>, len |-> 0]

BufWrite(b, p) ==
    [arr |-> SubSeq(b.arr, 1, b.len) \o p \o DropN(b.arr, b.len + Len(p)),
     len |-> b.len + Len(p)]

BufReset(b) == [b EXCEPT !.len = 0]

BufBytes(b) == SubSeq(b.arr, 1, b.len)

(***************************************************************************)
(* Encode driver (encode.go).  s is the encodeState: engine, context       *)
(* (structName, field, err) and Buffer; s.fieldCache is the process-wide   *)
(* fieldCache as the call sees and updates it.  Every step yields the      *)
(* state, the returned error and the panic, if any, that ended it.         *)
(***************************************************************************)
Ret(s, ret) == [s |-> s, ret |-> ret, panic |-> "none"]
Panic(s, why) == [s |-> s, ret |-> NilErr, panic |-> why]
Failed(r) == r.panic # "none" \/ r.ret # NilErr

EncodeState(e, fc) ==
    [engine |-> e, structName |-> "", field |-> NoField, err |-> NilErr,
     Buffer |-> NewBuffer, fieldCache |-> fc]

Write(s, p) == [s EXCEPT !.Buffer = BufWrite(@, p)]

\* the tag driver's Encode(s.field.name, s.field.meta, in, s.Buffer): it
\* copies in to the writer, and fails on the field the driver rejects
TagEncode(s, in) ==
    IF s.engine.tag.failOn # "" /\ s.engine.tag.failOn = s.field.name
    THEN Ret(Write(s, in), Sentinel("ErrEncode"))
    ELSE Ret(Write(s, in), NilErr)

\* context.setError
setError(s, tagName, state, err) ==
    [s EXCEPT !.err =
        IF s.structName = ""
        THEN MkErr("value", tagName, state, "", "", s.field.typ, "",
                   unwrapErr(err).cause)
        ELSE MkErr("field", tagName, state, s.structName, s.field.name,
                   s.field.typ, "", unwrapErr(err).cause)]

\* valueFromPtr: v.IsNil() panics unless v is of a nilable kind
valueFromPtr(v) ==
    IF Kind(v.t) # "ptr"
    THEN [panic |-> "reflect: call of reflect.Value.IsNil on struct Value", v |-> v]
    ELSE [panic |-> "none", v |-> IF IsNil(v) THEN Zero(Elem(v.t)) ELSE v.x[1]]

\* cachedFields: load, or compute with the state's engine and store
cachedFields(s, t, fuel) ==
    IF t \in DOMAIN s.fieldCache
    THEN [s |-> s, plan |-> s.fieldCache[t]]
    ELSE Let(typeFields(s.engine, t, fuel), LAMBDA c :
           IF c.panic # "none" THEN [s |-> s, plan |-> c]
           ELSE [s |-> [s EXCEPT !.fieldCache = (t :> c) @@ @], plan |-> c])

\* the bytes of a byte-sequence value handed to Marshal
Bytes(v) == v.x.b

RECURSIVE reflectValueEnc(_, _, _)
RECURSIVE encodeLoop(_, _, _, _, _, _)
RECURSIVE encode(_, _, _, _, _)

invalidTagError(s, c) ==
    MkErr("invalidTag", s.engine.tag.name, "", s.structName, s.field.name, "",
          c.tag, c.err.cause)

\* the encoder function c applied to (s, v)
ApplyEncoder(c, s, v, fuel) ==
    CASE c.fn = "boolEncoder" -> TagEncode(s, FormatBool(v.x))
      [] c.fn = "intEncoder" -> TagEncode(s, FormatInt(v.x))
      [] c.fn = "uintEncoder" -> TagEncode(s, FormatUint(v.x))
      [] c.fn = "stringEncoder" -> TagEncode(s, v.x)
      [] c.fn = "bytesEncoder" -> TagEncode(s, Bytes(v))
      [] c.fn = "interfaceEncoder" ->
            IF IsNil(v) THEN Ret([s EXCEPT !.err = ErrNilInterface], errExist)
            ELSE reflectValueEnc(s, v.x[1], fuel)
      [] c.fn = "pointerEncoder" -> reflectValueEnc(s, valueFromPtr(v).v, fuel)
      [] c.fn = "structEncoder" ->
            Let(cachedFields(s, v.t, fuel), LAMBDA cf :
              IF cf.plan.panic # "none" THEN Panic(s, cf.plan.panic)
              ELSE encode(cf.plan.fields, cf.s, v, cf.s.engine.wrap, fuel))
      [] c.fn = "unsupportedTypeEncoder" ->
            Ret([s EXCEPT !.err = ErrNotSupportType], errExist)
      [] c.fn = "invalidTagEncoder" ->
            Ret([s EXCEPT !.err = invalidTagError(s, c)], NilErr)

\* encodeState.reflectValue: s.cache(v.Type())(s, v); reflect.ValueOf(nil)
\* has no type
reflectValueEnc(s, v, fuel) ==
    IF v.t = "nil" THEN Panic(s, "reflect: call of reflect.Value.Type on zero Value")
    ELSE IF fuel = 0 THEN Panic(s, "stack overflow")
    ELSE ApplyEncoder(typeCoders(v.t).ef, s, v, fuel - 1)

\* the loop of structFields.encode from plan entry i on
encodeLoop(f, i, s, v, sep, fuel) ==
    IF i > Len(f) THEN Ret(s, NilErr)
    ELSE
      Let([s EXCEPT !.field = f[i]], LAMBDA s1 :
        IF s1.field.omitEmpty /\ isEmptyValue(v.x[f[i].index])
        THEN encodeLoop(f, i + 1, s1, v, sep, fuel)
        ELSE
          Let(IF sep THEN Write(s1, s1.engine.valueSeparator) ELSE s1, LAMBDA s2 :
            IF ~s2.field.embedded.nil THEN
                Let(valueFromPtr(v.x[f[i].index]), LAMBDA p :
                  IF p.panic # "none" THEN Panic(s2, p.panic)
                  ELSE Let(encode(s2.field.embedded.fields, s2, p.v, FALSE, fuel - 1),
                           LAMBDA r :
                             IF Failed(r) THEN r
                             ELSE encodeLoop(f, i + 1, r.s, v, s2.engine.separate, fuel)))
            ELSE Let(ApplyEncoder(s2.field.encoder, s2, v.x[f[i].index], fuel),
                     LAMBDA r :
                       IF Failed(r) THEN r
                       ELSE encodeLoop(f, i + 1, r.s, v, s2.engine.separate, fuel))))

\* structFields.encode
encode(f, s, v, wrap, fuel) ==
    IF fuel = 0 THEN Panic(s, "stack overflow")
    ELSE
      Let([s EXCEPT !.structName = v.t], LAMBDA s1 :
        Let(encodeLoop(f, 1, IF wrap THEN Write(s1, s1.engine.structOpener) ELSE s1,
                       v, FALSE, fuel),
            LAMBDA r :
              IF Failed(r) THEN r
              ELSE IF wrap THEN Ret(Write(r.s, r.s.engine.structCloser), NilErr)
              ELSE r))

marshalError == "encode data from"

\* encodeState.marshal once s.reflectValue has returned r
marshalReturn(r) ==
    Let(r, LAMBDA q :
      IF q.panic # "none" THEN q
      ELSE IF q.ret # NilErr
      THEN Ret([(IF ~ErrorsIs(q.ret, "errExist")
                 THEN setError(q.s, q.s.engine.tag.name, marshalError, q.ret)
                 ELSE q.s) EXCEPT !.Buffer = BufReset(@)], NilErr)
      ELSE Ret(q.s, NilErr))

\* encodeState.marshal
marshal(s, v, fuel) == marshalReturn(reflectValueEnc(s, v, fuel))

\* what Marshal hands back from state s: s.Bytes(), s.err
MarshalResult(r) ==
    Let(r, LAMBDA m : [out |-> BufBytes(m.s.Buffer), err |-> m.s.err, panic |-> m.panic])

(***************************************************************************)
(* Decode driver (unnamed/part_002).  s is the decodeState: engine,        *)
(* context, Buffer and data.  s.data is a slice [arr, off, len] of one of  *)
(* the byte arrays of s.mem: "input", the caller's array, or "work", the   *)
(* array Unmarshal makes.  Every step yields the state, the target value   *)
(* as written so far, the returned error and the panic, if any.            *)
(***************************************************************************)
RetD(s, v, ret) == [s |-> s, v |-> v, ret |-> ret, panic |-> "none"]
PanicD(s, v, why) == [s |-> s, v |-> v, ret |-> NilErr, panic |-> why]

Slice(arr, off, len) == [arr |-> arr, off |-> off, len |-> len]
NilSlice == Slice("nil", 0, 0)

\* the bytes of s.data
DataBytes(s) ==
    IF s.data.len = 0 THEN <<>>
    ELSE SubSeq(s.mem[s.data.arr], s.data.off + 1, s.data.off + s.data.len)

RECURSIVE LeadingSpaces(_)
LeadingSpaces(b) ==
    IF b # <<>> /\ Head(b) = " " THEN 1 + LeadingSpaces(Tail(b)) ELSE 0

RECURSIVE TrailingSpaces(_)
TrailingSpaces(b) ==
    IF b # <<>> /\ b[Len(b)] = " "
    THEN 1 + TrailingSpaces(SubSeq(b, 1, Len(b) - 1)) ELSE 0

\* s.data = bytes.TrimSpace(s.data): nil when nothing but white space is left
TrimSpace(s) ==
    Let(DataBytes(s), LAMBDA b :
      IF LeadingSpaces(b) = Len(b) THEN [s EXCEPT !.data = NilSlice]
      ELSE [s EXCEPT !.data = Slice(@.arr, @.off + LeadingSpaces(b),
                                    @.len - LeadingSpaces(b) - TrailingSpaces(b))])

invalidFormatError(s) ==
    MkErr("prefixed", s.engine.tag.name, "", "", "", "", "", "ErrInvalidFormat")

\* a mutation of removePrefixBytes: a missing prefix is no error
removePrefixBytesLenient(s, b) ==
    IF ~HasPrefix(DataBytes(s), b) THEN [s |-> s, ret |-> NilErr]
    ELSE [s |-> [s EXCEPT !.data = Slice(@.arr, @.off + Len(b), @.len - Len(b))],
          ret |-> NilErr]

\* decodeState.removePrefixBytes
removePrefixBytes(s, b) ==
    IF ~HasPrefix(DataBytes(s), b)
    THEN [s |-> [s EXCEPT !.err = invalidFormatError(s)], ret |-> errExist]
    ELSE [s |-> [s EXCEPT !.data = Slice(@.arr, @.off + Len(b), @.len - Len(b))],
          ret |-> NilErr]

\* the bytes that end a field in the driver's syntax
Delimiters == {",", "}"}

RECURSIVE TokenLen(_)
TokenLen(b) ==
    IF b = <<>> \/ Head(b) \in Delimiters THEN 0 ELSE 1 + TokenLen(Tail(b))

Spaces(n) == [i \in 1..n |-> " "]

\* the array arr with the window [off+1 .. off+Len(w)] overwritten by w
Overwrite(arr, off, w) ==
    [i \in 1..Len(arr) |->
        IF i > off /\ i <= off + Len(w) THEN w[i - off] ELSE arr[i]]

\* the tag driver's Decode(s.field.name, s.field.meta, s.data, s): it writes
\* the bytes up to the next delimiter to the writer; a consuming driver then
\* moves the rest of the working buffer to its front and pads it with white
\* space, which is all it can do to a slice it was handed by value
TagDecode(s) ==
    Let(DataBytes(s), LAMBDA b :
      Let(TokenLen(b), LAMBDA k :
        [s |-> [s EXCEPT !.Buffer = BufWrite(@, SubSeq(b, 1, k)),
                         !.mem[s.data.arr] =
                            IF s.engine.tag.consume /\ k > 0
                            THEN Overwrite(@, s.data.off, DropN(b, k) \o Spaces(k))
                            ELSE @],
         ret |-> IF s.engine.tag.failOn # "" /\ s.engine.tag.failOn = s.field.name
                 THEN Sentinel("ErrDecode") ELSE NilErr]))

DecodeState(e, fc, input) ==
    [engine |-> e, structName |-> "", field |-> NoField, err |-> NilErr,
     Buffer |-> NewBuffer, fieldCache |-> fc, data |-> NilSlice,
     mem |-> [input |-> input, work |-> <<>>], addr |-> FALSE]

IsDigit(c) == \E i \in 1..10 : Digit[i] = c

DigitValue(c) == (CHOOSE i \in 1..10 : Digit[i] = c) - 1

RECURSIVE DigitsValue(_, _)
DigitsValue(b, acc) ==
    IF b = <<>> THEN acc ELSE DigitsValue(Tail(b), 10 * acc + DigitValue(Head(b)))

\* strconv.ParseInt(b, 10, 64) on the values of this model: (value, err)
ParseInt(b) ==
    LET signed == b # <<>> /\ Head(b) \in {"-", "+"}
        digits == IF signed THEN Tail(b) ELSE b
    IN IF digits = <<>> \/ \E i \in 1..Len(digits) : ~IsDigit(digits[i])
       THEN [n |-> 0, err |-> Sentinel("ErrSyntax")]
       ELSE [n |-> IF signed /\ Head(b) = "-"
                   THEN 0 - DigitsValue(digits, 0) ELSE DigitsValue(digits, 0),
             err |-> NilErr]

\* strconv.ParseUint(b, 10, 64)
ParseUint(b) ==
    IF b = <<>> \/ \E i \in 1..Len(b) : ~IsDigit(b[i])
    THEN [n |-> 0, err |-> Sentinel("ErrSyntax")]
    ELSE [n |-> DigitsValue(b, 0), err |-> NilErr]

\* strconv.ParseBool
ParseBool(b) ==
    IF b \in {<<"1">>, <<"t">>, <<"t", "r", "u", "e">>}
    THEN [b |-> TRUE, err |-> NilErr]
    ELSE IF b \in {<<"0">>, <<"f">>, <<"f", "a", "l", "s", "e">>}
    THEN [b |-> FALSE, err |-> NilErr]
    ELSE [b |-> FALSE, err |-> Sentinel("ErrSyntax")]

RECURSIVE reflectValueDec(_, _, _)
RECURSIVE decodeLoop(_, _, _, _, _, _, _)
RECURSIVE decode(_, _, _, _, _)

\* the decoder function c applied to (s, v)
\* the decoders that end in a v.Set..., which panics on a value that is not
\* addressable
SettingDecoders ==
    {"boolDecoder", "intDecoder", "uintDecoder", "stringDecoder", "bytesDecoder"}

Unaddressable == "reflect: reflect.Value.Set using unaddressable value"

\* s.addr is reflect's flagAddr of the value a decoder is handed: what
\* reflect.ValueOf returns is not addressable, what a pointer's Elem returns
\* is, and a field is when its record is
Addressable(s) == [s EXCEPT !.addr = TRUE]
Readdress(r, a) == [r EXCEPT !.s.addr = a]

ApplyDecoder(c, s, v, fuel) ==
    CASE c.fn \in SettingDecoders /\ ~s.addr -> PanicD(s, v, Unaddressable)
      [] c.fn = "boolDecoder" /\ s.addr ->
            RetD(s, Val(v.t, ParseBool(BufBytes(s.Buffer)).b),
                 ParseBool(BufBytes(s.Buffer)).err)
      [] c.fn = "intDecoder" /\ s.addr ->
            RetD(s, Val(v.t, ParseInt(BufBytes(s.Buffer)).n),
                 ParseInt(BufBytes(s.Buffer)).err)
      [] c.fn = "uintDecoder" /\ s.addr ->
            RetD(s, Val(v.t, ParseUint(BufBytes(s.Buffer)).n),
                 ParseUint(BufBytes(s.Buffer)).err)
      [] c.fn = "stringDecoder" /\ s.addr ->
            RetD(s, Val(v.t, BufBytes(s.Buffer)), NilErr)
      [] c.fn = "bytesDecoder" /\ s.addr ->
            RetD(s, Val(v.t, BufferBytes(s.Buffer.len)), NilErr)
      [] c.fn = "interfaceDecoder" ->
            IF IsNil(v) THEN RetD([s EXCEPT !.err = ErrNilInterface], v, errExist)
            ELSE Let(Readdress(reflectValueDec([s EXCEPT !.addr = FALSE], v.x[1], fuel),
                               s.addr),
                     LAMBDA r : [r EXCEPT !.v = v])
      [] c.fn = "pointerDecoder" ->
            IF IsNil(v)
            THEN Let(Readdress(reflectValueDec(Addressable(s), Zero(Elem(v.t)), fuel),
                               s.addr), LAMBDA r :
                   IF r.panic # "none" \/ r.ret # NilErr THEN [r EXCEPT !.v = v]
                   ELSE IF isEmptyValue(r.v) THEN RetD(r.s, v, NilErr)
                   ELSE IF ~s.addr THEN PanicD(r.s, v, Unaddressable)
                   ELSE RetD(r.s, Val(v.t, <<r.v>>), NilErr))
            ELSE Let(Readdress(reflectValueDec(Addressable(s), v.x[1], fuel), s.addr),
                     LAMBDA r : [r EXCEPT !.v = Val(v.t, <<r.v>>)])
      [] c.fn = "structDecoder" ->
            Let(cachedFields(s, v.t, fuel), LAMBDA cf :
              IF cf.plan.panic # "none" THEN PanicD(s, v, cf.plan.panic)
              ELSE decode(cf.plan.fields, cf.s, v, cf.s.engine.wrap, fuel))
      [] c.fn = "unsupportedTypeDecoder" ->
            RetD([s EXCEPT !.err = ErrNotSupportType], v, errExist)
      [] c.fn = "invalidTagDecoder" ->
            RetD([s EXCEPT !.err = invalidTagError(s, c)], v, errExist)

\* decodeState.reflectValue: s.cache(v.Type())(s, v)
reflectValueDec(s, v, fuel) ==
    IF v.t = "nil"
    THEN PanicD(s, v, "reflect: call of reflect.Value.Type on zero Value")
    ELSE IF fuel = 0 THEN PanicD(s, v, "stack overflow")
    ELSE ApplyDecoder(typeCoders(v.t).df, s, v, fuel - 1)

\* a mutation of pointerToUnexportedError: the sentinel formatted, not wrapped
pointerToUnexportedErrorFlat(s, t) ==
    MkErr("prefixed", s.engine.tag.name, "", "", "", t, "", "")

pointerToUnexportedError(s, t) ==
    MkErr("prefixed", s.engine.tag.name, "", "", "", t, "", "ErrPointerToUnexported")

\* the value v with field i set to w
SetField(v, i, w) == [v EXCEPT !.x[i] = w]

\* the embedded record a plan entry decodes into, and the field value once
\* that record has been decoded into w
EmbeddedTarget(rv) == IF Kind(rv.t) = "ptr" THEN rv.x[1] ELSE rv
EmbeddedResult(rv, w) == IF Kind(rv.t) = "ptr" THEN Val(rv.t, <<w>>) ELSE w

\* the loop of structFields.decode from plan entry i on
\* a mutation of loopEnds: only frame_close ends the loop
loopEndsAtCloser(s, unwrap) ==
    unwrap /\ HasPrefix(DataBytes(s), s.engine.structCloser)

\* the break of the loop of structFields.decode: nothing is left of the
\* trimmed buffer, or frame_close is next in a record that unwraps
loopEnds(s, unwrap) ==
    \/ s.data = NilSlice
    \/ unwrap /\ HasPrefix(DataBytes(s), s.engine.structCloser)

decodeLoop(f, i, s, v, sep, unwrap, fuel) ==
    IF i > Len(f) THEN RetD(s, v, NilErr)
    ELSE
      Let(TrimSpace([s EXCEPT !.field = f[i]]), LAMBDA s1 :
        IF loopEnds(s1, unwrap) THEN RetD(s1, v, NilErr)
        ELSE
          Let(IF sep THEN removePrefixBytes(s1, s1.engine.valueSeparator)
              ELSE [s |-> s1, ret |-> NilErr], LAMBDA rp :
            IF rp.ret # NilErr THEN RetD(rp.s, v, rp.ret)
            ELSE
              Let([rp.s EXCEPT !.Buffer = BufReset(@)], LAMBDA s2 :
                IF ~s2.field.embedded.nil THEN
                    IF Kind(v.x[f[i].index].t) = "ptr" /\ IsNil(v.x[f[i].index])
                    THEN RetD([s2 EXCEPT !.err =
                                 pointerToUnexportedError(s2, Elem(v.x[f[i].index].t))],
                              v, errExist)
                    ELSE
                      Let(Readdress(
                            decode(s2.field.embedded.fields,
                                   IF Kind(v.x[f[i].index].t) = "ptr"
                                   THEN Addressable(s2) ELSE s2,
                                   EmbeddedTarget(v.x[f[i].index]), FALSE, fuel - 1),
                            s2.addr),
                          LAMBDA r :
                            Let(SetField(v, f[i].index,
                                         EmbeddedResult(v.x[f[i].index], r.v)),
                                LAMBDA v2 :
                                  IF r.panic # "none" \/ r.ret # NilErr
                                  THEN [r EXCEPT !.v = v2]
                                  ELSE decodeLoop(f, i + 1, r.s, v2,
                                                  s2.engine.removeSeparator,
                                                  unwrap, fuel)))
                ELSE
                  Let(TagDecode(s2), LAMBDA td :
                    IF td.ret # NilErr THEN RetD(td.s, v, td.ret)
                    ELSE IF td.s.Buffer.len = 0
                    THEN decodeLoop(f, i + 1, td.s, v, s2.engine.removeSeparator,
                                    unwrap, fuel)
                    ELSE
                      Let(ApplyDecoder(td.s.field.decoder, td.s, v.x[f[i].index], fuel),
                          LAMBDA r :
                            Let(SetField(v, f[i].index, r.v), LAMBDA v2 :
                              IF r.panic # "none" \/ r.ret # NilErr
                              THEN [r EXCEPT !.v = v2]
                              ELSE decodeLoop(f, i + 1, r.s, v2,
                                              s2.engine.removeSeparator,
                                              unwrap, fuel)))))))

\* structFields.decode
decode(f, s, v, unwrap, fuel) ==
    IF fuel = 0 THEN PanicD(s, v, "stack overflow")
    ELSE
      Let([s EXCEPT !.structName = v.t], LAMBDA s1 :
        Let(IF unwrap THEN removePrefixBytes(s1, s1.engine.structOpener)
            ELSE [s |-> s1, ret |-> NilErr], LAMBDA ro :
          IF ro.ret # NilErr THEN RetD(ro.s, v, ro.ret)
          ELSE
            Let(decodeLoop(f, 1, ro.s, v, FALSE, unwrap, fuel), LAMBDA r :
              IF r.panic # "none" \/ r.ret # NilErr THEN r
              ELSE IF unwrap
              THEN Let(removePrefixBytes(r.s, r.s.engine.structCloser), LAMBDA rc :
                     RetD(rc.s, r.v, rc.ret))
              ELSE r)))

unmarshalError == "decode data into"

\* decodeState.unmarshal
unmarshal(s, v, fuel) ==
    Let(reflectValueDec(s, v, fuel), LAMBDA r :
      IF r.panic # "none" THEN r
      ELSE IF r.ret # NilErr /\ ~ErrorsIs(r.ret, "errExist")
      THEN RetD(setError(r.s, r.s.engine.tag.name, unmarshalError, r.ret), r.v, NilErr)
      ELSE RetD(r.s, r.v, NilErr))

\* a mutation of copyInput: the working buffer is the caller's slice itself
copyInputAliased(s) ==
    [s EXCEPT !.data = Slice("input", 0, Len(s.mem.input))]

\* s.data = make([]byte, len(data)); copy(s.data, data)
copyInput(s) ==
    [s EXCEPT !.mem.work = s.mem.input,
              !.data = Slice("work", 0, Len(s.mem.input))]

\* engine.Unmarshal from scratch state s (taken from the pool or new, its
\* s.mem.input the caller's data) into the target v
Unmarshal(s, v, fuel) == unmarshal(copyInput(s), v, fuel)

\* the value v as the caller reads it when the Buffer's array holds arr
RECURSIVE View(_, _)
View(v, arr) ==
    CASE Kind(v.t) = "slice" ->
            IF v.x.ref = "Buffer" THEN Val(v.t, OwnBytes(SubSeq(arr, 1, v.x.n))) ELSE v
      [] Kind(v.t) \in {"ptr", "interface"} ->
            IF IsNil(v) THEN v ELSE Val(v.t, <<View(v.x[1], arr)>>)
      [] Kind(v.t) = "struct" -> Val(v.t, [i \in 1..Len(v.x) |-> View(v.x[i], arr)])
      [] OTHER -> v

(***************************************************************************)
(* Introspection specification: typeFields applied to a record type T      *)
(* whose fields are drawn from PlanPalette.                                *)
(***************************************************************************)
NoVal == [t |-> "nil", x |-> 0]

\* reflect.ValueOf(nil): the zero Value
Nil == [t |-> "nil", x |-> <<>>]
NoRes == [out |-> <<>>, err |-> NilErr, panic |-> "none"]
NoURes ==
    [v |-> NoVal, err |-> NilErr, panic |-> "none", input |-> <<>>, work |-> <<>>,
     rest |-> NilSlice, field |-> 0]

\* a process that has made no call and runs no thread yet
InitProcess ==
    /\ heap = <<>>
    /\ encodeStatePool = {}
    /\ decodeStatePool = {}
    /\ fieldCache = <<>>
    /\ calls = <<>>

InitThreads ==
    /\ encoderCache = <<>>
    /\ thr = <<>>

PlanPalette ==
    { StructField("A", "int", TRUE, FALSE, Annot(NoTag)),
      StructField("B", "string", TRUE, FALSE, Annot("omitempty")),
      StructField("C", "int", TRUE, FALSE, Annot("bad")),
      StructField("D", "int", TRUE, FALSE, Annot("-")),
      StructField("g", "int", FALSE, FALSE, Annot("x")),
      StructField("I", "any", TRUE, FALSE, Annot("x")),
      StructField("Inner", "Inner", TRUE, TRUE, Annot(NoTag)),
      StructField("inner", "*inner", FALSE, TRUE, Annot(NoTag)),
      StructField("Empty", "Empty", TRUE, TRUE, Annot(NoTag)),
      StructField("Bad", "Bad", TRUE, TRUE, Annot("-")),
      StructField("int", "int", FALSE, TRUE, Annot(NoTag)),
      StructField("MyInt", "MyInt", TRUE, TRUE, Annot(NoTag)),
      StructField("Loop", "*Loop", TRUE, TRUE, Annot(NoTag)) }

PlanDrivers ==
    { Driver("fmt", "default", "", TRUE), Driver("fmt", "custom", "", TRUE) }

PlainConfig == Config(<<>>, <<>>, FALSE, <<>>, FALSE)

InitPlan ==
    /\ tdecl \in {d \in SeqsUpTo(PlanPalette, MaxPlanFields) : IsInjective(d)}
    /\ eng \in {New(d, PlainConfig) : d \in PlanDrivers}
    /\ val = NoVal
    /\ pc = "start"
    /\ plan = NilFields
    /\ mres = NoRes
    /\ data = <<>>
    /\ ures = NoURes
    /\ InitProcess
    /\ InitThreads

\* the engine introspects T
Introspect ==
    /\ pc = "start"
    /\ plan' = typeFields(eng, "T", MaxDepth)
    /\ pc' = "planned"
    /\ UNCHANGED <<tdecl, eng, val, mres, data, ures, processVars, threadVars>>

NextPlan == Introspect

SpecPlan == InitPlan /\ [][NextPlan]_vars

(***************************************************************************)
(* C7: what a plan visits.                                                 *)
(***************************************************************************)
PrefixAll(n, ps) == [i \in 1..Len(ps) |-> <<n>> \o ps[i]]

\* the leaf fields a plan visits, embedded sub-plans flattened, as paths
RECURSIVE FlatPlan(_)
FlatPlan(fs) ==
    IF fs = <<>> THEN <<>>
    ELSE (IF ~Head(fs).embedded.nil
          THEN PrefixAll(Head(fs).name, FlatPlan(Head(fs).embedded.fields))
          ELSE << <<Head(fs).name>> >>) \o FlatPlan(Tail(fs))

EmbeddedType(sf) == IF Kind(sf.typ) = "ptr" THEN Elem(sf.typ) ELSE sf.typ

NotSkipped(e, sf) == sf.tag[e.tag.name] = NoTag \/ ~Skip(e.tag, sf.tag[e.tag.name])

\* the fields of t the claim wants visited: exported and either without
\* annotation or with one that is not skipped; an embedded record stands for
\* its own such fields (flattened), whatever its own annotation
RECURSIVE WantedFields(_, _)
WantedFields(e, t) ==
    Flatten([i \in 1..NumField(t) |->
        LET sf == StructDecl(t)[i] IN
        IF sf.anonymous
        THEN IF Kind(EmbeddedType(sf)) = "struct"
             THEN PrefixAll(sf.name, WantedFields(e, EmbeddedType(sf)))
             ELSE <<>>
        ELSE IF sf.exported /\ NotSkipped(e, sf) THEN << <<sf.name>> >> ELSE <<>>])

\* the annotation of a visited field fails to parse
FailsParse(e, sf) ==
    /\ ~sf.anonymous /\ sf.exported
    /\ sf.tag[e.tag.name] # NoTag
    /\ ~Skip(e.tag, sf.tag[e.tag.name])
    /\ Parse(e.tag, sf.tag[e.tag.name]).err # NilErr

\* the last field of t that introspection looks at
LastScanned(e, t) ==
    IF \E i \in 1..NumField(t) : FailsParse(e, StructDecl(t)[i])
    THEN CHOOSE i \in 1..NumField(t) :
            /\ FailsParse(e, StructDecl(t)[i])
            /\ \A j \in 1..(i - 1) : ~FailsParse(e, StructDecl(t)[j])
    ELSE NumField(t)

\* as WantedFields, but a record's fields after its first field whose
\* annotation fails to parse are left out
RECURSIVE ScannedFields(_, _)
ScannedFields(e, t) ==
    Flatten([i \in 1..LastScanned(e, t) |->
        LET sf == StructDecl(t)[i] IN
        IF sf.anonymous
        THEN IF Kind(EmbeddedType(sf)) = "struct"
             THEN PrefixAll(sf.name, ScannedFields(e, EmbeddedType(sf)))
             ELSE <<>>
        ELSE IF sf.exported /\ NotSkipped(e, sf) THEN << <<sf.name>> >> ELSE <<>>])

\* C7 as stated: every plan visits, in declaration order, exactly the fields
\* that are exported with no annotation or carry an annotation for which Skip
\* is false.
C7_PlanVisitsExactlyWanted ==
    (pc = "planned" /\ plan.panic = "none")
        => FlatPlan(plan.fields) = WantedFields(eng, "T")

\* C7 amended: every plan visits, in declaration order, exactly those fields
\* of each record up to and including the record's first field whose
\* annotation fails to parse; the fields declared after it are not in the
\* plan.
C7_PlanVisitsScanned ==
    (pc = "planned" /\ plan.panic = "none")
        => FlatPlan(plan.fields) = ScannedFields(eng, "T")

\* C7 witness: a plan was built for a type with an embedded record and a
\* field declared after one whose annotation fails to parse.
C7_Witness ==
    /\ pc = "planned" /\ plan.panic = "none"
    /\ eng.tag.mode = "custom"
    /\ Len(tdecl) = 3
    /\ tdecl[1].name = "Inner" /\ tdecl[2].name = "C" /\ tdecl[3].name = "A"
    /\ FlatPlan(plan.fields) = << <<"Inner", "X">>, <<"Inner", "Y">>, <<"C">> >>

(***************************************************************************)
(* Call specification: one Marshal of a value of the record type T.        *)
(***************************************************************************)
\* the values of type t the calls are made with; d bounds pointer nesting
RECURSIVE ValuesOf(_, _), FieldValues(_, _, _)
\* the values of the first i fields of record type t
FieldValues(t, i, d) ==
    IF i = 0 THEN {<<>>}
    ELSE {Append(xs, v) : xs \in FieldValues(t, i - 1, d),
                          v \in ValuesOf(FieldType(t, i), d)}

ValuesOf(t, d) ==
    CASE Kind(t) = "int" -> {Val(t, 0), Val(t, 12)}
      [] Kind(t) = "bool" -> {Val(t, FALSE), Val(t, TRUE)}
      [] Kind(t) = "string" -> {Val(t, <<>>), Val(t, <<"a", "b">>)}
      [] Kind(t) = "slice" -> {Val(t, OwnBytes(<<>>)), Val(t, OwnBytes(<<"c">>))}
      [] Kind(t) = "map" -> {Val(t, 0)}
      [] Kind(t) = "interface" -> {Val(t, <<>>), Val(t, <<Val("int", 12)>>)}
      [] Kind(t) = "ptr" ->
            {Val(t, <<>>)} \cup
            (IF d = 0 THEN {} ELSE {Val(t, <<v>>) : v \in ValuesOf(Elem(t), d - 1)})
      [] OTHER -> {Val(t, xs) : xs \in FieldValues(t, NumField(t), d)}

CallPalette ==
    { StructField("A", "int", TRUE, FALSE, Annot(NoTag)),
      StructField("B", "string", TRUE, FALSE, Annot("omitempty")),
      StructField("C", "int", TRUE, FALSE, Annot("bad")),
      StructField("P", "*int", TRUE, FALSE, Annot("omitempty")),
      StructField("S", "[]byte", TRUE, FALSE, Annot(NoTag)),
      StructField("R", "[]byte", TRUE, FALSE, Annot("omitempty")),
      StructField("I", "any", TRUE, FALSE, Annot(NoTag)),
      StructField("M", "map", TRUE, FALSE, Annot(NoTag)),
      StructField("N", "Inner", TRUE, FALSE, Annot(NoTag)),
      StructField("Inner", "*Inner", TRUE, TRUE, Annot(NoTag)),
      StructField("inner", "inner", FALSE, TRUE, Annot(NoTag)) }

Frame == Config(<<"{">>, <<"}">>, TRUE, <<",">>, TRUE)

CallConfigs ==
    { PlainConfig,
      Frame,
      Config(<<"{">>, <<"}">>, FALSE, <<",">>, TRUE),
      Config(<<>>, <<>>, TRUE, <<",">>, FALSE) }

CallDrivers ==
    { Driver("fmt", "custom", "", TRUE), Driver("fmt", "custom", "A", TRUE) }

InitCall ==
    /\ tdecl \in {d \in SeqsUpTo(CallPalette, MaxFields) : IsInjective(d)}
    /\ eng \in {New(d, c) : d \in CallDrivers, c \in CallConfigs}
    /\ val \in ValuesOf("T", 1)
    /\ pc = "start"
    /\ plan = NilFields
    /\ mres = NoRes
    /\ data = <<>>
    /\ ures = NoURes
    /\ InitProcess
    /\ InitThreads

\* engine.Marshal on a scratch state that is new
DoMarshal ==
    /\ pc = "start"
    /\ mres' = MarshalResult(marshal(EncodeState(eng, <<>>), val, MaxDepth))
    /\ pc' = "marshalled"
    /\ UNCHANGED <<tdecl, eng, val, plan, data, ures, processVars, threadVars>>

\* the byte slices handed to Unmarshal: what Marshal returned, and that
\* without its first or its last byte
UnmarshalInputs(out) ==
    {out} \cup (IF out = <<>> THEN {} ELSE {Tail(out), SubSeq(out, 1, Len(out) - 1)})

\* what the caller has after Unmarshal: the target, s.err, the byte arrays,
\* and where the call left s.data (rest) and s.field
UnmarshalResult(r) ==
    Let(r, LAMBDA u :
      [v |-> View(u.v.x[1], u.s.Buffer.arr), err |-> u.s.err, panic |-> u.panic,
       input |-> u.s.mem.input, work |-> u.s.mem.work,
       rest |-> u.s.data, field |-> u.s.field.index])

\* engine.Unmarshal(d, &w), w a zero T, on a scratch state that is new
DoUnmarshal ==
    /\ pc = "marshalled"
    /\ mres.panic = "none"
    /\ \E d \in UnmarshalInputs(mres.out) :
          /\ data' = d
          /\ ures' = UnmarshalResult(
                        Unmarshal(DecodeState(eng, <<>>, d),
                                  Val("*T", <<Zero("T")>>), MaxDepth))
    /\ pc' = "unmarshalled"
    /\ UNCHANGED <<tdecl, eng, val, plan, mres, processVars, threadVars>>

NextCall == DoMarshal \/ DoUnmarshal

SpecCall == InitCall /\ [][NextCall]_vars

(***************************************************************************)
(* Calls at the boundary: Marshal of nil, Unmarshal of truncated input and *)
(* into targets that are nil or not pointers.                              *)
(***************************************************************************)
EdgePalette ==
    { StructField("A", "int", TRUE, FALSE, Annot(NoTag)),
      StructField("B", "string", TRUE, FALSE, Annot("omitempty")),
      StructField("C", "int", TRUE, FALSE, Annot("bad")),
      StructField("I", "any", TRUE, FALSE, Annot(NoTag)),
      StructField("M", "map", TRUE, FALSE, Annot(NoTag)),
      StructField("D", "Bad", TRUE, FALSE, Annot(NoTag)),
      StructField("Inner", "*Inner", TRUE, TRUE, Annot(NoTag)) }

InitEdge ==
    /\ tdecl \in {d \in SeqsUpTo(EdgePalette, MaxFields) : IsInjective(d)}
    /\ eng \in {New(d, c) : d \in CallDrivers, c \in CallConfigs}
    /\ val \in ValuesOf("T", 1) \cup {Nil}
    /\ pc = "start"
    /\ plan = NilFields
    /\ mres = NoRes
    /\ data = <<>>
    /\ ures = NoURes
    /\ InitProcess
    /\ InitThreads

\* the byte slices handed to Unmarshal: every prefix of what Marshal
\* returned, and that without its first byte
TruncatedInputs(out) ==
    {SubSeq(out, 1, k) : k \in 0..Len(out)}
        \cup (IF out = <<>> THEN {} ELSE {Tail(out)})

\* engine.Unmarshal of a truncated input into a pointer to a zero T
DoUnmarshalTruncated ==
    /\ pc = "marshalled"
    /\ mres.panic = "none"
    /\ \E d \in TruncatedInputs(mres.out) :
          /\ data' = d
          /\ ures' = UnmarshalResult(
                        Unmarshal(DecodeState(eng, <<>>, d),
                                  Val("*T", <<Zero("T")>>), MaxDepth))
    /\ pc' = "unmarshalled"
    /\ UNCHANGED <<tdecl, eng, val, plan, mres, processVars, threadVars>>

\* engine.Unmarshal(data, v) with v not a pointer: a zero T by value, or nil
NonPointers == {Zero("T"), Nil}

DoUnmarshalNonPointer ==
    /\ pc = "marshalled"
    /\ mres.panic = "none"
    /\ \E d \in TruncatedInputs(mres.out), w \in NonPointers :
          \E u \in {Unmarshal(DecodeState(eng, <<>>, d), w, MaxDepth)} :
            /\ data' = d
            /\ ures' = [v |-> u.v, err |-> u.s.err, panic |-> u.panic,
                        input |-> u.s.mem.input, work |-> u.s.mem.work,
                        rest |-> u.s.data, field |-> u.s.field.index]
    /\ pc' = "returned"
    /\ UNCHANGED <<tdecl, eng, val, plan, mres, processVars, threadVars>>

NextEdge == DoMarshal \/ DoUnmarshalTruncated \/ DoUnmarshalNonPointer

SpecEdge == InitEdge /\ [][NextEdge]_vars

(***************************************************************************)
(* Process specification: a sequence of Marshal and Unmarshal calls made   *)
(* on two engines of one process, which share encodeStatePool,             *)
(* decodeStatePool and fieldCache.  Both engines are instances of one      *)
(* engine[T], so a pooled object passes the type assertion of              *)
(* newEncodeState and newDecodeState.                                      *)
(***************************************************************************)
EngineFmt == New(Driver("fmt", "custom", "", TRUE), Frame)
EngineAlt ==
    New(Driver("alt", "custom", "", TRUE), Config(<<>>, <<>>, FALSE, <<";">>, TRUE))

ProcessEngines == {EngineFmt, EngineAlt}

\* T{A int `alt:"-"`; B string `fmt:"omitempty"`} and T{S []byte; A int}
ProcessDecls ==
    { << StructField("A", "int", TRUE, FALSE, Annot2(NoTag, "-")),
         StructField("B", "string", TRUE, FALSE, Annot2("omitempty", NoTag)) >>,
      << StructField("S", "[]byte", TRUE, FALSE, Annot(NoTag)),
         StructField("A", "int", TRUE, FALSE, Annot(NoTag)) >> }

InitProc ==
    /\ tdecl \in ProcessDecls
    /\ eng = EngineFmt
    /\ val = NoVal
    /\ pc = "start"
    /\ plan = NilFields
    /\ mres = NoRes
    /\ data = <<>>
    /\ ures = NoURes
    /\ InitProcess
    /\ InitThreads

\* sync.Pool.Get: an object of the pool, or nil, for which the caller
\* allocates a new object at the next free address
PoolGet(pool) == pool \cup (IF Len(heap) < MaxStates THEN {Len(heap) + 1} ELSE {})

\* engine.newEncodeState when Get yields the object at a, or nil for an a not
\* in the pool
newEncodeState(e, a) ==
    IF a \in encodeStatePool
    THEN [heap[a] EXCEPT !.Buffer = BufReset(@), !.err = NilErr,
                         !.fieldCache = fieldCache]
    ELSE EncodeState(e, fieldCache)

\* engine.newDecodeState when Get yields the object at a, or nil for an a not
\* in the pool; d is the byte slice the caller hands to Unmarshal
newDecodeState(e, a, d) ==
    IF a \in decodeStatePool
    THEN [heap[a] EXCEPT !.err = NilErr, !.fieldCache = fieldCache,
                         !.mem = [input |-> d, work |-> <<>>]]
    ELSE DecodeState(e, fieldCache, d)

\* the heap with object o at address a
Store(a, o) ==
    IF a \in DOMAIN heap THEN [heap EXCEPT ![a] = [o EXCEPT !.fieldCache = <<>>]]
    ELSE Append(heap, [o EXCEPT !.fieldCache = <<>>])

\* e.Marshal(v): the scratch object comes from the pool or is new, goes back
\* to the pool when the call returns, and the returned slice is the first n
\* bytes of the array of the object's Buffer
Marshal(e, v, a) ==
    /\ Len(calls) < MaxCalls
    /\ \E r \in {marshal(newEncodeState(e, a), v, MaxDepth)} :
          /\ heap' = Store(a, r.s)
          /\ fieldCache' = r.s.fieldCache
          /\ calls' = Append(calls,
                 [op |-> "Marshal", engine |-> e, v |-> v, in |-> <<>>,
                  state |-> a, n |-> r.s.Buffer.len,
                  out |-> BufBytes(r.s.Buffer), w |-> NoVal,
                  err |-> r.s.err, panic |-> r.panic])
    /\ encodeStatePool' = encodeStatePool \cup {a}
    /\ UNCHANGED <<callVars, decodeStatePool, threadVars>>

\* e.Unmarshal(d, &w), w a zero T
UnmarshalCall(e, d, a) ==
    /\ Len(calls) < MaxCalls
    /\ \E r \in {Unmarshal(newDecodeState(e, a, d), Val("*T", <<Zero("T")>>),
                          MaxDepth)} :
          /\ heap' = Store(a, r.s)
          /\ fieldCache' = r.s.fieldCache
          /\ calls' = Append(calls,
                 [op |-> "Unmarshal", engine |-> e, v |-> NoVal, in |-> d,
                  state |-> a, n |-> 0, out |-> <<>>,
                  w |-> View(r.v.x[1], r.s.Buffer.arr),
                  err |-> r.s.err, panic |-> r.panic])
    /\ decodeStatePool' = decodeStatePool \cup {a}
    /\ UNCHANGED <<callVars, encodeStatePool, threadVars>>

\* the byte slices earlier Marshal calls returned, as they were on return
Returned == {calls[i].out : i \in {j \in 1..Len(calls) : calls[j].op = "Marshal"}}

ProcMarshal ==
    \E e \in ProcessEngines, v \in ValuesOf("T", 0), a \in PoolGet(encodeStatePool) :
        Marshal(e, v, a)

ProcUnmarshal ==
    \E e \in ProcessEngines, d \in Returned, a \in PoolGet(decodeStatePool) :
        UnmarshalCall(e, d, a)

NextProc == ProcMarshal \/ ProcUnmarshal

SpecProc == InitProc /\ [][NextProc]_vars

\* e.Unmarshal(d, &n), n an int that is 0: the target is a pointer to a value
\* that is no record
UnmarshalInt(e, d, a) ==
    /\ Len(calls) < MaxCalls
    /\ \E r \in {Unmarshal(newDecodeState(e, a, d), Val("*int", <<Zero("int")>>),
                          MaxDepth)} :
          /\ heap' = Store(a, r.s)
          /\ fieldCache' = r.s.fieldCache
          /\ calls' = Append(calls,
                 [op |-> "UnmarshalInt", engine |-> e, v |-> NoVal, in |-> d,
                  state |-> a, n |-> 0, out |-> <<>>,
                  w |-> r.v.x[1],
                  err |-> r.s.err, panic |-> r.panic])
    /\ decodeStatePool' = decodeStatePool \cup {a}
    /\ UNCHANGED <<callVars, encodeStatePool, threadVars>>

ProcUnmarshalInt ==
    \E e \in ProcessEngines, d \in Returned, a \in PoolGet(decodeStatePool) :
        UnmarshalInt(e, d, a)

\* the calls of a process that also decodes into pointers to integers
NextHist == ProcMarshal \/ ProcUnmarshal \/ ProcUnmarshalInt

SpecHist == InitProc /\ [][NextHist]_vars

(***************************************************************************)
(* C4: the returned bytes.                                                 *)
(***************************************************************************)
\* the bytes a caller reads now in the slice that call c returned
ReadNow(c) == SubSeq(heap[c.state].Buffer.arr, 1, c.n)

\* C4: the byte slice a Marshal call returned holds, after every later
\* Marshal call, the bytes it held when it was returned.
C4_ReturnedBytesStable ==
    \A i \in 1..Len(calls) :
        (calls[i].op = "Marshal" /\ calls[i].panic = "none")
            => ReadNow(calls[i]) = calls[i].out

(***************************************************************************)
(* C5: engine isolation.                                                   *)
(***************************************************************************)
\* what the call c returns in a process that has made no other call
Alone(c) ==
    IF c.op = "Marshal"
    THEN Let(marshal(EncodeState(c.engine, <<>>), c.v, MaxDepth), LAMBDA r :
           [out |-> BufBytes(r.s.Buffer), w |-> NoVal,
            err |-> r.s.err, panic |-> r.panic])
    ELSE Let(Unmarshal(DecodeState(c.engine, <<>>, c.in),
                       Val("*T", <<Zero("T")>>), MaxDepth), LAMBDA r :
           [out |-> <<>>, w |-> View(r.v.x[1], r.s.Buffer.arr),
            err |-> r.s.err, panic |-> r.panic])

\* C5: every call on an engine returns what that engine's own driver and
\* configuration yield, whatever calls were made before it on other engines.
C5_EngineIsolation ==
    \A i \in 1..Len(calls) :
        [out |-> calls[i].out, w |-> calls[i].w,
         err |-> calls[i].err, panic |-> calls[i].panic] = Alone(calls[i])

(***************************************************************************)
(* Concurrent specification: two threads each make the process's first     *)
(* Marshal of a Node chain.  A thread's steps are those of                 *)
(* encodeState.cache for the type of its value, then the call of the       *)
(* encoder it obtained; that call runs as one step.                        *)
(***************************************************************************)
Threads == {1, 2}

NodeValue(n, next) == Val("Node", <<Val("int", n), Val("*Node", next)>>)

\* chains of one and of two nodes, handed to Marshal by value or by pointer
Chains ==
    { NodeValue(1, <<>>),
      Val("*Node", <<NodeValue(1, <<>>)>>),
      NodeValue(1, <<NodeValue(2, <<>>)>>) }

ImplementsNil == "reflect: nil type passed to Type.Implements"

\* an entry of encoderCache: the indirect func of thread owner, or the
\* encoder f itself
Indirect(owner) == [indirect |-> TRUE, owner |-> owner, f |-> NilCoder]
Direct(f) == [indirect |-> FALSE, owner |-> 0, f |-> f]

InitConc ==
    /\ tdecl = <<>>
    /\ eng \in {New(Driver("fmt", "default", "", TRUE), Frame),
                New(Driver("fmt", "default", "", TRUE), Unset(Frame))}
    /\ val = NoVal
    /\ pc = "start"
    /\ plan = NilFields
    /\ mres = NoRes
    /\ data = <<>>
    /\ ures = NoURes
    /\ InitProcess
    /\ encoderCache = <<>>
    /\ thr \in [Threads -> {[pc |-> "Load", v |-> v, c |-> Direct(NilCoder),
                             f |-> NilCoder, wg |-> 0, res |-> NoRes] :
                            v \in {w \in Chains : eng.marshaller = NilType
                                                     => w.t = "Node"}}]

\* encoderCache.Load(t); on a miss, wg.Add(1)
cacheLoad(t) ==
    /\ thr[t].pc = "Load"
    /\ thr' = IF thr[t].v.t \in DOMAIN encoderCache
              THEN [thr EXCEPT ![t].c = encoderCache[thr[t].v.t], ![t].pc = "Call"]
              ELSE [thr EXCEPT ![t].wg = 1, ![t].pc = "LoadOrStore"]
    /\ UNCHANGED <<callVars, processVars, encoderCache>>

\* a mutation of cacheLoadOrStore: Store in place of LoadOrStore
cacheLoadOrStoreAlways(t) ==
    /\ thr[t].pc = "LoadOrStore"
    /\ encoderCache' = (thr[t].v.t :> Indirect(t)) @@ encoderCache
    /\ thr' = [thr EXCEPT ![t].pc = "Compute"]
    /\ UNCHANGED <<callVars, processVars>>

\* encoderCache.LoadOrStore(t, indirect func)
cacheLoadOrStore(t) ==
    /\ thr[t].pc = "LoadOrStore"
    /\ IF thr[t].v.t \in DOMAIN encoderCache
       THEN /\ thr' = [thr EXCEPT ![t].c = encoderCache[thr[t].v.t], ![t].pc = "Call"]
            /\ UNCHANGED encoderCache
       ELSE /\ encoderCache' = (thr[t].v.t :> Indirect(t)) @@ encoderCache
            /\ thr' = [thr EXCEPT ![t].pc = "Compute"]
    /\ UNCHANGED <<callVars, processVars>>

\* a mutation of cacheCompute: f is not assigned before wg.Done()
cacheComputeUnset(t) ==
    /\ thr[t].pc = "Compute"
    /\ thr' = [thr EXCEPT ![t].wg = 0, ![t].pc = "Store"]
    /\ UNCHANGED <<callVars, processVars, encoderCache>>

\* f, _ = s.typeCoders(t); wg.Done().  When typeCoders panics the panic
\* leaves cache and Marshal at once, nothing is deferred: wg.Done() and
\* encoderCache.Store are not reached, and the caller of Marshal recovers
cacheCompute(t) ==
    /\ thr[t].pc = "Compute"
    /\ thr' = IF ImplementsPanics(eng, thr[t].v.t)
              THEN [thr EXCEPT ![t].res = [NoRes EXCEPT !.panic = ImplementsNil],
                               ![t].pc = "Panicked"]
              ELSE [thr EXCEPT ![t].f = typeCoders(thr[t].v.t).ef, ![t].wg = 0,
                               ![t].pc = "Store"]
    /\ UNCHANGED <<callVars, processVars, encoderCache>>

\* encoderCache.Store(t, f); return f
cacheStore(t) ==
    /\ thr[t].pc = "Store"
    /\ encoderCache' = [encoderCache EXCEPT ![thr[t].v.t] = Direct(thr[t].f)]
    /\ thr' = [thr EXCEPT ![t].c = Direct(thr[t].f), ![t].pc = "Call"]
    /\ UNCHANGED <<callVars, processVars>>

\* the encoder is called: the indirect func waits for its owner's wg.Done()
\* and calls the owner's f; then marshal and Marshal return
callEncoder(t) ==
    /\ thr[t].pc = "Call"
    /\ thr[t].c.indirect => thr[thr[t].c.owner].wg = 0
    /\ thr' = [thr EXCEPT
          ![t].res = MarshalResult(marshalReturn(
                        ApplyEncoder(IF thr[t].c.indirect THEN thr[thr[t].c.owner].f
                                     ELSE thr[t].c.f,
                                     EncodeState(eng, <<>>), thr[t].v, MaxDepth))),
          ![t].pc = "Done"]
    /\ UNCHANGED <<callVars, processVars, encoderCache>>

NextConc ==
    \E t \in Threads :
        \/ cacheLoad(t)
        \/ cacheLoadOrStore(t)
        \/ cacheCompute(t)
        \/ cacheStore(t)
        \/ callEncoder(t)

SpecConc == InitConc /\ [][NextConc]_vars

(***************************************************************************)
(* C6: self-referential record type.                                       *)
(***************************************************************************)
\* C6: when two threads concurrently make the first Marshal of a finite Node
\* chain, every call that has returned has returned bytes and no error; no
\* call ends in a panic or a stack overflow.
C6_ChainMarshalReturns ==
    \A t \in Threads :
        thr[t].pc = "Done"
            => (thr[t].res.panic = "none" /\ thr[t].res.err = NilErr
                /\ thr[t].res.out # <<>>)

(***************************************************************************)
(* C17..C20: the protocol of the coder cache.  encodeState.cache and        *)
(* decodeState.cache are the same code over encoderCache and decoderCache;  *)
(* the threads of SpecConc run the first.                                   *)
(***************************************************************************)
\* thread t has obtained a coder from cache: it is about to call it, or has
Obtained(t) == thr[t].pc \in {"Call", "Done"}

\* the coder that typeCoders compiles for the type of thread t's value
RealCoder(t) == typeCoders(thr[t].v.t).ef

\* the coder that runs when thread t invokes the function it obtained: the
\* f of the stub's owner once the latch is open, or the function itself
Executes(t) == IF thr[t].c.indirect THEN thr[thr[t].c.owner].f ELSE thr[t].c.f

\* the stub thread t holds can go past wg.Wait()
LatchOpen(t) == thr[t].c.indirect => thr[thr[t].c.owner].wg = 0

\* C17: every function a thread has obtained from cache, the stub or the
\* real coder, executes the real coder of the type when it is invoked; the
\* stub does not get past its latch to an f that is not set.
C17_ObtainedRunsRealCoder ==
    \A t \in Threads :
        (Obtained(t) /\ LatchOpen(t))
            => (Executes(t) = RealCoder(t) /\ Executes(t) # NilCoder)

\* C17 witness: thread 2 holds the stub of thread 1, whose latch is open, and
\* thread 1 the real coder.
C17_Witness ==
    /\ thr[1].pc = "Call" /\ ~thr[1].c.indirect /\ thr[1].c.f = RealCoder(1)
    /\ thr[2].pc = "Call" /\ thr[2].c = Indirect(1)
    /\ thr[1].wg = 0 /\ thr[1].f = RealCoder(2)

\* thread o has compiled the coder of type T and released the latch
Compiled(o, T) ==
    /\ thr[o].v.t = T
    /\ thr[o].pc \in {"Store", "Call", "Done"}
    /\ thr[o].f # NilCoder
    /\ thr[o].wg = 0

\* thread t returns from cache in this step
Returns(t) == thr[t].pc \in {"Load", "LoadOrStore"} /\ thr'[t].pc = "Call"

\* C18: once a thread has compiled the coder of T and released the latch, no
\* cache(T) call of any thread returns the stub.
C18_NoStubAfterCompile ==
    [][\A t, o \in Threads :
          (Compiled(o, thr[t].v.t) /\ Returns(t)) => ~thr'[t].c.indirect]_vars

\* C19 as stated: an entry of the cache, once published, is never replaced by
\* a different one.
C19_EntryNeverReplaced ==
    [][\A T \in DOMAIN encoderCache : encoderCache'[T] = encoderCache[T]]_vars

\* C19 amended: the real coder, once published for T, is never replaced and
\* is what every later cache(T) call returns; the stub is replaced once, by
\* its owner, with the real coder of T.
C19_RealCoderStable ==
    [][/\ \A T \in DOMAIN encoderCache :
            /\ T \in DOMAIN encoderCache'
            /\ ~encoderCache[T].indirect => encoderCache'[T] = encoderCache[T]
            /\ encoderCache'[T] # encoderCache[T] =>
                  /\ encoderCache'[T] = Direct(typeCoders(T).ef)
                  /\ thr[encoderCache[T].owner].pc = "Store"
                  /\ thr'[encoderCache[T].owner].pc = "Call"
       /\ \A t \in Threads :
            (Returns(t) /\ thr[t].v.t \in DOMAIN encoderCache
               /\ ~encoderCache[thr[t].v.t].indirect)
               => thr'[t].c = Direct(RealCoder(t))]_vars

\* C19 witness: the real coder of the type both threads marshal is published
\* and both threads have obtained it from cache.
C19_Witness ==
    /\ thr[1].v.t = thr[2].v.t
    /\ thr[1].v.t \in DOMAIN encoderCache
    /\ encoderCache[thr[1].v.t] = Direct(RealCoder(1))
    /\ Obtained(1) /\ Obtained(2)
    /\ thr[1].c = Direct(RealCoder(1)) /\ thr[2].c = thr[1].c

\* C20: when the thread that published the stub of T has panicked in
\* typeCoders, the latch is released and the stub is gone from the cache, so
\* that a caller holding the stub gets past wg.Wait().
C20_LatchReleasedOnPanic ==
    \A o \in Threads :
        thr[o].pc = "Panicked" =>
            /\ thr[o].wg = 0
            /\ encoderCache[thr[o].v.t] # Indirect(o)
            /\ \A t \in Threads :
                  (thr[t].pc = "Call" /\ thr[t].c = Indirect(o)) => LatchOpen(t)

(***************************************************************************)
(* C1: round trip.                                                         *)
(***************************************************************************)
\* the tag driver whose Encode copies and whose Decode yields the next
\* field's bytes, on an engine that frames records and separates fields
RoundTripEngine == eng = New(Driver("fmt", "custom", "", TRUE), Frame)

\* a field of a supported type: integer, string, byte sequence, pointer to
\* integer, or an embedded record, with an annotation that parses
SupportedField(sf) ==
    /\ sf.tag["fmt"] # "bad"
    /\ \/ sf.anonymous
       \/ Kind(sf.typ) \in {"int", "string", "slice"}
       \/ sf.typ = "*int"

SupportedRecord == \A i \in 1..Len(tdecl) : SupportedField(tdecl[i])

\* C1: for the round-trip driver and every value v of a supported record
\* type, Marshal(v) succeeds, and Unmarshal of its output into a zero w
\* succeeds and leaves w equal to v.
C1_RoundTrip ==
    (RoundTripEngine /\ SupportedRecord) =>
        /\ pc # "start" => (mres.panic = "none" /\ mres.err = NilErr)
        /\ (pc = "unmarshalled" /\ data = mres.out) =>
              (ures.panic = "none" /\ ures.err = NilErr /\ ures.v = val)

(***************************************************************************)
(* C2: the caller's input.                                                 *)
(***************************************************************************)
\* C2: whether Unmarshal succeeds or fails, and whatever the driver's Decode
\* did to the working buffer, the caller's byte slice holds after the call
\* the bytes it held before it.
C2_InputNotModified == pc = "unmarshalled" => ures.input = data

\* C2 witness: an Unmarshal whose driver rewrote the working buffer has
\* returned.
C2_Witness ==
    /\ pc = "unmarshalled"
    /\ ures.panic = "none"
    /\ data # <<>>
    /\ ures.work # data

(***************************************************************************)
(* C3: no bytes on error.                                                  *)
(***************************************************************************)
\* C3: whenever Marshal returns a non-nil error, the byte slice it returns is
\* empty.
C3_NoBytesOnError ==
    (pc # "start" /\ mres.panic = "none" /\ mres.err # NilErr) => mres.out = <<>>

(***************************************************************************)
(* C8: omission of empty values.                                           *)
(***************************************************************************)
\* emptiness as the format defines it: false, 0, a string or sequence of
\* length zero, a nil pointer, a nil dynamic value
EmptyValue(v) ==
    CASE Kind(v.t) = "bool" -> v.x = FALSE
      [] Kind(v.t) \in {"int", "uint"} -> v.x = 0
      [] Kind(v.t) = "string" -> v.x = <<>>
      [] Kind(v.t) = "slice" -> v.x.n = 0
      [] Kind(v.t) \in {"ptr", "interface"} -> v.x = <<>>
      [] OTHER -> FALSE

\* field i of T has a plan entry with omit_empty set
OmitEmptyInPlan(i) ==
    \E k \in 1..Len(typeFields(eng, "T", MaxDepth).fields) :
        /\ typeFields(eng, "T", MaxDepth).fields[k].index = i
        /\ typeFields(eng, "T", MaxDepth).fields[k].omitEmpty

\* what Marshal returns for val less its i-th field
OutWithout(i) ==
    MarshalResult(marshal(EncodeState(eng, <<>>),
                          Val(Without[i], RemoveAt(val.x, i)), MaxDepth)).out

\* C8: when a field has omit_empty set in the plan and its value is empty,
\* Marshal returns the bytes it returns for the same record without that
\* field: no bytes and no separator are written for it, and the separators
\* around the other fields are those of the record without the field.
C8_EmptyFieldOmitted ==
    (pc # "start" /\ mres.panic = "none") =>
        \A i \in 1..Len(tdecl) :
            (OmitEmptyInPlan(i) /\ EmptyValue(val.x[i])) => mres.out = OutWithout(i)

\* C8 witness: Marshal has returned the bytes of a two-field record on an
\* engine that separates fields, the first field omitted as empty and the
\* second written.
C8_Witness ==
    /\ pc = "marshalled" /\ mres.panic = "none" /\ mres.err = NilErr
    /\ eng.separate
    /\ Len(tdecl) = 2
    /\ OmitEmptyInPlan(1) /\ EmptyValue(val.x[1])
    /\ tdecl[2].name = "A" /\ val.x[2].x = 12
    /\ mres.out = <<"{", "1", "2", "}">>

(***************************************************************************)
(* C9: frames on encode.                                                   *)
(***************************************************************************)
\* C9: when frame_open or frame_close is not empty, the bytes Marshal returns
\* for a record begin with frame_open and end with frame_close, whether
\* UnwrapWhenDecoding is set or not.
C9_FramesWritten ==
    (/\ pc # "start" /\ mres.panic = "none" /\ mres.err = NilErr
     /\ (eng.structOpener # <<>> \/ eng.structCloser # <<>>))
        => (HasPrefix(mres.out, eng.structOpener)
            /\ HasSuffix(mres.out, eng.structCloser))

(***************************************************************************)
(* C10: separators.                                                        *)
(***************************************************************************)
\* the number of leaf fields Marshal writes for the value v under the plan
\* fs, embedded sub-plans flattened
RECURSIVE WrittenLeaves(_, _, _)
WrittenLeaves(fs, k, v) ==
    IF k > Len(fs) THEN 0
    ELSE (IF fs[k].omitEmpty /\ EmptyValue(v.x[fs[k].index]) THEN 0
          ELSE IF ~fs[k].embedded.nil
          THEN WrittenLeaves(fs[k].embedded.fields, 1,
                             valueFromPtr(v.x[fs[k].index]).v)
          ELSE 1)
         + WrittenLeaves(fs, k + 1, v)

RECURSIVE CountByte(_, _)
CountByte(b, c) ==
    IF b = <<>> THEN 0
    ELSE (IF Head(b) = c THEN 1 ELSE 0) + CountByte(Tail(b), c)

\* a record of one frame: every field is a leaf or an embedded record
OneFrame ==
    \A i \in 1..Len(tdecl) :
        tdecl[i].anonymous \/ Kind(tdecl[i].typ) \in {"int", "string", "slice"}
                           \/ tdecl[i].typ = "*int"

\* C10: with the separator ",", the bytes Marshal returns for a record of
\* one frame with n written leaf fields hold exactly max(0, n - 1)
\* separators.
C10_SeparatorsBetweenFields ==
    (/\ pc # "start" /\ mres.panic = "none" /\ mres.err = NilErr
     /\ eng.valueSeparator = <<",">>
     /\ OneFrame)
        => LET n == WrittenLeaves(typeFields(eng, "T", MaxDepth).fields, 1, val)
           IN CountByte(mres.out, ",") = IF n = 0 THEN 0 ELSE n - 1

(***************************************************************************)
(* C11: a buffer that ends early.                                          *)
(***************************************************************************)
\* the call was made on a pointer to a zero T and has returned
Unmarshalled == pc = "unmarshalled" /\ ures.panic = "none"

\* the loop over the plan found nothing but white space left of the working
\* buffer, which Unmarshal left nil
BufferEnded == ures.rest = NilSlice

\* frame_close was the last thing Unmarshal took off the working buffer
CloserTaken ==
    /\ ures.rest.arr = "work"
    /\ ures.rest.off >= Len(eng.structCloser)
    /\ SubSeq(ures.work, ures.rest.off - Len(eng.structCloser) + 1, ures.rest.off)
          = eng.structCloser

\* every field of T is a leaf: not embedded and not a record
LeafRecord ==
    \A i \in 1..Len(tdecl) : ~tdecl[i].anonymous /\ Kind(tdecl[i].typ) # "struct"

\* the fields from the one Unmarshal stopped at onwards hold their zero values
RestZero ==
    \A j \in 1..Len(tdecl) :
        (ures.field # 0 /\ j >= ures.field) => ures.v.x[j] = Zero(tdecl[j].typ)

\* the fields after the one Unmarshal stopped at hold their zero values
RestZeroAfter ==
    \A j \in 1..Len(tdecl) : j > ures.field => ures.v.x[j] = Zero(tdecl[j].typ)

\* C11 as stated: when the working buffer ends before all plan fields have
\* been consumed, Unmarshal returns nil and the fields not consumed hold
\* their zero values.
C11_EndedBufferSucceeds ==
    (Unmarshalled /\ BufferEnded /\ Len(tdecl) > 0)
        => (ures.err = NilErr /\ (LeafRecord => RestZero))

\* C11 amended: on an engine that does not unwrap, when nothing but white
\* space is left of the working buffer before all plan fields have been
\* consumed, Unmarshal returns nil and the fields not consumed hold their
\* zero values; on an engine that unwraps, it returns nil, the fields after
\* the last one looked at zero, when frame_close was taken off the buffer,
\* and ErrInvalidFormat when the buffer ended.
C11_EndedBufferSucceedsIfClosed ==
    (Unmarshalled /\ Len(tdecl) > 0) =>
        /\ (~eng.wrap /\ BufferEnded)
              => (ures.err = NilErr /\ (LeafRecord => RestZero))
        /\ (eng.wrap /\ CloserTaken /\ LeafRecord)
              => (ures.err = NilErr /\ RestZeroAfter)
        /\ (eng.wrap /\ BufferEnded) => ErrorsIs(ures.err, "ErrInvalidFormat")

\* C11 witness: Unmarshal of "12" into T{A; B} has stopped at B, the second
\* field, on an engine that does not unwrap.
C11_Witness ==
    /\ Unmarshalled /\ BufferEnded /\ ~eng.wrap
    /\ data = <<"1", "2">>
    /\ Len(tdecl) = 2 /\ tdecl[1].name = "A" /\ tdecl[2].name = "B"
    /\ ures.field = 2
    /\ ures.v.x[1].x = 12 /\ ures.v.x[2].x = <<>>
    /\ ures.err = NilErr

EmbeddedPointer(i) ==
    /\ i \in 1..Len(tdecl)
    /\ tdecl[i].anonymous
    /\ Kind(tdecl[i].typ) = "ptr"

\* b after its leading white space
TrimLeft(b) == DropN(b, LeadingSpaces(b))

\* the loop of structFields.decode goes past its break for the first field
\* of T: there is input after frame_open (if the engine unwraps) that is not
\* white space and not frame_close
FirstFieldReached ==
    IF eng.wrap
    THEN /\ HasPrefix(data, eng.structOpener)
         /\ TrimLeft(DropN(data, Len(eng.structOpener))) # <<>>
         /\ ~HasPrefix(TrimLeft(DropN(data, Len(eng.structOpener))), eng.structCloser)
    ELSE TrimLeft(data) # <<>>

C14_MarshalNilReturnsError ==
    (pc = "marshalled" /\ val = Nil)
        => (mres.panic = "none" /\ mres.err # NilErr /\ mres.out = <<>>)

\* C15: Unmarshal(data, v) with v nil or not a pointer returns an error that
\* is not nil, does not panic and leaves v and data as they were.
C15_NonPointerReturnsError ==
    pc = "returned"
        => /\ ures.panic = "none"
           /\ ures.err # NilErr
           /\ ures.v \in NonPointers
           /\ ures.input = data

(***************************************************************************)
(* C16: an annotation that fails to parse.                                 *)
(***************************************************************************)
\* err wraps the error of Parse and names the tag, the record and the field
\* of an annotation that failed to parse: C of T, or L of Bad
NamesFailedTag(err) ==
    /\ ErrorsIs(err, "ErrParse")
    /\ err.tagName = eng.tag.name
    /\ err.tag = "bad"
    /\ <<err.structName, err.fieldName>> \in {<<"T", "C">>, <<"Bad", "L">>}

\* the first field of T is C, or is D, a Bad, whose first field K encodes
\* and decodes and whose second is L: Marshal visits the annotation that
\* fails to parse
FailedTagFirst == Len(tdecl) > 0 /\ tdecl[1].name \in {"C", "D"}

\* C16: a Marshal that has visited a field whose annotation failed to parse
\* returns an error that wraps the error of Parse and names the tag, the
\* record and the field, and so does an Unmarshal whose first field it is
\* and whose input begins with a digit.
C16_ParseErrorReported ==
    /\ (pc # "start" /\ val # Nil /\ mres.panic = "none" /\ FailedTagFirst)
          => NamesFailedTag(mres.err)
    /\ (Unmarshalled /\ ~eng.wrap /\ Len(tdecl) > 0 /\ tdecl[1].name = "C"
          /\ data # <<>> /\ IsDigit(data[1]))
          => NamesFailedTag(ures.err)

(***************************************************************************)
(* C21: the first error.                                                   *)
(***************************************************************************)
\* the error that the encode of field i of T raises for the value val, "" if
\* it raises none: C, and L of the Bad that D holds, have annotations that
\* fail to parse, a nil I is a nil interface, M is a map, and the driver may
\* fail on A
FieldFailure(i) ==
    CASE tdecl[i].name \in {"C", "D"} -> "ErrParse"
      [] tdecl[i].name = "I" /\ IsNil(val.x[i]) -> "ErrNilInterface"
      [] tdecl[i].name = "M" -> "ErrNotSupportType"
      [] tdecl[i].name = "A" /\ eng.tag.failOn = "A" -> "ErrEncode"
      [] OTHER -> ""

\* the first field of T in plan order whose encode fails, 0 if none does
FirstFailing ==
    IF \E i \in 1..Len(tdecl) : FieldFailure(i) # ""
    THEN CHOOSE i \in 1..Len(tdecl) :
            /\ FieldFailure(i) # ""
            /\ \A j \in 1..(i - 1) : FieldFailure(j) = ""
    ELSE 0

\* C21: the error Marshal returns is the one raised at the first failing
\* field in plan order, and nil when no field fails; no later failure
\* replaces it.
C21_FirstErrorWins ==
    (pc # "start" /\ val # Nil /\ mres.panic = "none") =>
        IF FirstFailing = 0 THEN mres.err = NilErr
        ELSE ErrorsIs(mres.err, FieldFailure(FirstFailing))

(***************************************************************************)
(* C23: the names in an error.                                             *)
(***************************************************************************)
\* an error that names a record and a field names a field of that record
NamesOwnField(err) ==
    err.k \in {"field", "invalidTag"} =>
        \E i \in 1..NumField(err.structName) :
            StructDecl(err.structName)[i].name = err.fieldName

\* C23: the record and the field named in the error of Marshal or Unmarshal
\* are those of the field at which the error occurred: the field named is a
\* field of the record named, not of a record processed before it.
C23_ErrorNamesItsRecord ==
    /\ (pc # "start" /\ val # Nil /\ mres.panic = "none") => NamesOwnField(mres.err)
    /\ Unmarshalled => NamesOwnField(ures.err)

(***************************************************************************)
(* C22: embedded records without usable fields.                            *)
(***************************************************************************)
\* C22: the plan of T holds no descriptor of an embedded field whose record
\* type yields an empty sub-plan.
C22_EmptyEmbeddedDropped ==
    (pc = "planned" /\ plan.panic = "none") =>
        \A k \in 1..Len(plan.fields) :
            ~plan.fields[k].embedded.nil => plan.fields[k].embedded.fields # <<>>

(***************************************************************************)
(* C25: introspection is total.                                            *)
(***************************************************************************)
\* C25: typeFields(T) returns a plan for every record type T; it does not
\* panic and does not run out of stack.
C25_IntrospectionTotal ==
    pc = "planned" => (plan.panic = "none" /\ ~plan.nil)

(***************************************************************************)
(* C24: the history of calls.                                              *)
(***************************************************************************)
\* what the Unmarshal call c returns on a scratch state that is new
Fresh(c) ==
    Let(Unmarshal(DecodeState(c.engine, <<>>, c.in),
                  IF c.op = "UnmarshalInt" THEN Val("*int", <<Zero("int")>>)
                  ELSE Val("*T", <<Zero("T")>>), MaxDepth), LAMBDA r :
      [w |-> IF c.op = "UnmarshalInt" THEN r.v.x[1]
             ELSE View(r.v.x[1], r.s.Buffer.arr),
       err |-> r.s.err, panic |-> r.panic])

\* every call before the i-th was made on the engine of the i-th
SameEngineSoFar(i) == \A j \in 1..i : calls[j].engine = calls[i].engine

\* C24: an Unmarshal call returns the error and leaves the target that the
\* same call returns and leaves on a new scratch state, whatever calls the
\* same engine completed before it.
C24_UnmarshalIgnoresHistory ==
    \A i \in 1..Len(calls) :
        (calls[i].op \in {"Unmarshal", "UnmarshalInt"} /\ SameEngineSoFar(i))
            => [w |-> calls[i].w, err |-> calls[i].err, panic |-> calls[i].panic]
                  = Fresh(calls[i])

====
